---- MODULE Spec2Model ----
(***************************************************************************)
(* Pen (Plaintext Editing Notepad), src/src/main.c.                        *)
(*                                                                         *)
(* The text buffer, the selection, the line index, the soft-wrap fit and   *)
(* the file load/save of the editor, as state machines.  Bytes are         *)
(* integers (10 is '\n', 32 is ' ', 9 is a tab).  buf.data holds the len   *)
(* valid bytes of the C array; the terminating NUL and the bytes of the    *)
(* block past len are storage the program never reads.                     *)
(***************************************************************************)
EXTENDS Integers, Sequences, FiniteSets, TLC

VARIABLES
    buf,        \* Buffer: data, len, cap, cursor, ok (ok = data is not NULL)
    sel,        \* Selection: active, anchor, caret
    scrollRow,  \* main: first visible row
    disk,       \* the file at the path used by save/load: exists, data
    crashed,    \* the process died on a write past the end of the block
    last,       \* the operation applied last and its inputs
    pre,        \* buf, sel and scrollRow as they were before that operation
    wrap,       \* the wrap loop of the draw code and the last wrap_fit_count call
    ui,         \* main's locals: desiredCol, dragging, dirty, bsNext, bsHeldPrev, hasPath
    clip,       \* the text on the system clipboard
    now         \* GetTime() at the last tick, in milliseconds

vars == <<buf, sel, scrollRow, disk, crashed, last, pre, wrap, ui, clip, now>>

(***************************************************************************)
(* Bounds of the model.                                                    *)
(***************************************************************************)
\* Longest buffer content explored.
MaxLen == 4
\* Capacity given by buf_init.  The program uses 1024 (main.c:38); the model
\* scales it down so that the doubling growth and its failure happen within
\* MaxLen bytes.
InitCap == 2

NL == 10
SP == 32

\* Rows of text the window shows, visibleRows of main.c:428.  The program
\* starts with a window of 15 rows; the model keeps a small one.
WindowRows == 2

\* Bytes the buffer-level operations are exercised with.
BufBytes == {NL, 97}

(***************************************************************************)
(* Helpers, main.c:33-35.                                                  *)
(***************************************************************************)
clampi(v, lo, hi) == IF v < lo THEN lo ELSE IF v > hi THEN hi ELSE v
mini(a, b) == IF a < b THEN a ELSE b
maxi(a, b) == IF a > b THEN a ELSE b

(***************************************************************************)
(* Buffer, main.c:26-85.                                                   *)
(***************************************************************************)
\* buf_init: malloc may fail, then data is NULL and the other fields are set.
buf_init(mallocOk) ==
    [data |-> <<>>, len |-> 0, cap |-> InitCap, cursor |-> 0, ok |-> mallocOk]

\* The doubling loop of buf_ensure: while (newcap < needed) newcap *= 2.
RECURSIVE GrowCap(_, _)
GrowCap(newcap, needed) ==
    IF newcap < needed THEN GrowCap(newcap * 2, needed) ELSE newcap

\* buf_ensure: nothing to do when needed fits; a failed realloc returns
\* without a word, leaving data and cap as they were.
buf_ensure(b, needed, allocOk) ==
    IF needed <= b.cap THEN b
    ELSE IF ~allocOk THEN b
    ELSE [b EXCEPT !.cap = GrowCap(b.cap, needed), !.ok = TRUE]

\* The memmove and memcpy of buf_insert_bytes, byte by byte: the tail
\* [cursor, len) moves n to the right and s lands at the cursor.
InsertedData(b, s) ==
    LET n == Len(s) IN
    [i \in 1..(b.len + n) |->
        IF i <= b.cursor THEN b.data[i]
        ELSE IF i <= b.cursor + n THEN s[i - b.cursor]
        ELSE b.data[i - n]]

\* Mutant of buf_insert_bytes: the bytes land at the end of the content
\* instead of at the cursor.
buf_insert_bytes_append(b, s, allocOk) ==
    IF Len(s) <= 0 THEN b
    ELSE LET e == buf_ensure(b, b.len + Len(s) + 1, allocOk) IN
         IF ~e.ok THEN e
         ELSE [e EXCEPT !.data = InsertedData([e EXCEPT !.cursor = e.len], s),
                        !.len = e.len + Len(s),
                        !.cursor = e.cursor + Len(s)]

\* buf_insert_bytes(b, s, n) with n = Len(s).  Only a NULL data stops the
\* insert: after a failed realloc the bytes are written all the same.
buf_insert_bytes(b, s, allocOk) ==
    IF Len(s) <= 0 THEN b
    ELSE LET e == buf_ensure(b, b.len + Len(s) + 1, allocOk) IN
         IF ~e.ok THEN e
         ELSE [e EXCEPT !.data = InsertedData(e, s),
                        !.len = e.len + Len(s),
                        !.cursor = e.cursor + Len(s)]

\* The insert writes len + n + 1 bytes into a block of cap bytes: when that
\* is more than cap (the realloc failed) the write runs past the block.
InsertOverflows(b, s, allocOk) ==
    /\ Len(s) > 0
    /\ LET e == buf_ensure(b, b.len + Len(s) + 1, allocOk) IN
       e.ok /\ e.len + Len(s) + 1 > e.cap

\* Mutant of buf_delete_range: a cursor beyond z is snapped to a.
buf_delete_range_snap(b, a0, z0) ==
    LET a == clampi(a0, 0, b.len)
        z == clampi(z0, 0, b.len)
    IN  IF z <= a THEN b
        ELSE [b EXCEPT
                !.data = [i \in 1..(b.len - (z - a)) |->
                            IF i <= a THEN b.data[i] ELSE b.data[i + (z - a)]],
                !.len = b.len - (z - a),
                !.cursor = IF b.cursor > a THEN a ELSE b.cursor]

\* buf_delete_range: clamp, return on an empty range, move the tail
\* [z, len) down to a, then reposition the cursor.
buf_delete_range(b, a0, z0) ==
    LET a == clampi(a0, 0, b.len)
        z == clampi(z0, 0, b.len)
    IN  IF z <= a THEN b
        ELSE [b EXCEPT
                !.data = [i \in 1..(b.len - (z - a)) |->
                            IF i <= a THEN b.data[i] ELSE b.data[i + (z - a)]],
                !.len = b.len - (z - a),
                !.cursor = IF b.cursor > z THEN b.cursor - (z - a)
                           ELSE IF b.cursor > a THEN a
                           ELSE b.cursor]

\* Mutant of buf_backspace: the byte at the cursor is removed, not the one
\* before it.
buf_backspace_forward(b) ==
    IF b.cursor <= 0 THEN b ELSE buf_delete_range(b, b.cursor, b.cursor + 1)

buf_backspace(b) ==
    IF b.cursor <= 0 THEN b ELSE buf_delete_range(b, b.cursor - 1, b.cursor)

(***************************************************************************)
(* Line index, main.c:87-143.                                              *)
(***************************************************************************)
\* The loop of cursor_row_col from index i on: for (i < cursor && i < len).
RECURSIVE ScanRowCol(_, _, _, _)
ScanRowCol(b, i, row, col) ==
    IF i < b.cursor /\ i < b.len
    THEN IF b.data[i + 1] = NL
         THEN ScanRowCol(b, i + 1, row + 1, 0)
         ELSE ScanRowCol(b, i + 1, row, col + 1)
    ELSE [row |-> row, col |-> col]

cursor_row_col(b) == ScanRowCol(b, 0, 0, 0)

\* The loop of line_start_index from index i on, row newlines seen so far.
RECURSIVE ScanLineStart(_, _, _, _)
ScanLineStart(b, i, row, targetRow) ==
    IF i < b.len
    THEN IF b.data[i + 1] = NL
         THEN IF row + 1 = targetRow THEN i + 1
              ELSE ScanLineStart(b, i + 1, row + 1, targetRow)
         ELSE ScanLineStart(b, i + 1, row, targetRow)
    ELSE b.len

\* Mutant of line_start_index: returns the index of the newline itself.
line_start_index_on_newline(b, targetRow) ==
    IF targetRow <= 0 THEN 0
    ELSE LET s == ScanLineStart(b, 0, 0, targetRow) IN
         IF s > 0 /\ s <= b.len /\ b.data[s] = NL THEN s - 1 ELSE s

line_start_index(b, targetRow) ==
    IF targetRow <= 0 THEN 0 ELSE ScanLineStart(b, 0, 0, targetRow)

RECURSIVE line_end_index(_, _)
line_end_index(b, start) ==
    IF start < b.len
    THEN IF b.data[start + 1] = NL THEN start ELSE line_end_index(b, start + 1)
    ELSE b.len

RECURSIVE CountRows(_, _, _)
CountRows(b, i, rows) ==
    IF i < b.len
    THEN CountRows(b, i + 1, IF b.data[i + 1] = NL THEN rows + 1 ELSE rows)
    ELSE rows

\* Mutant of total_rows: the count starts at 0.
total_rows_from_zero(b) == CountRows(b, 0, 0)

total_rows(b) == CountRows(b, 0, 1)

line_length_at_row(b, row) ==
    LET s == line_start_index(b, row) IN line_end_index(b, s) - s

\* Mutant of index_at_row_col: the column is not clamped to the row length.
index_at_row_col_unclamped(b, row, col) ==
    line_start_index(b, row) + maxi(col, 0)

index_at_row_col(b, row, col) ==
    line_start_index(b, row) + clampi(col, 0, line_length_at_row(b, row))

move_home(b) ==
    [b EXCEPT !.cursor = line_start_index(b, cursor_row_col(b).row)]

move_end(b) ==
    [b EXCEPT !.cursor =
        line_end_index(b, line_start_index(b, cursor_row_col(b).row))]

(***************************************************************************)
(* Hit test, main.c:156-169.                                               *)
(***************************************************************************)
\* lineH = fontSize + lineGap (main.c:370-372) and the width of "M", for
\* which main substitutes 12 below one pixel (main.c:374-375).
lineH == 30
charW == 12

\* The C conversion (int)(a / b) of a float quotient: towards zero.
TruncDiv(a, b) == IF a >= 0 THEN a \div b ELSE 0 - ((0 - a) \div b)

\* index_from_mouse with dy = mouse.y - textArea.y and dx = mouse.x -
\* textArea.x in pixels.
index_from_mouse(b, scroll, dy, dx) ==
    LET relRow0 == TruncDiv(dy, lineH)
        relRow == IF relRow0 < 0 THEN 0 ELSE relRow0
        row == clampi(scroll + relRow, 0, total_rows(b) - 1)
        col0 == TruncDiv(2 * dx + charW, 2 * charW)
        col == IF col0 < 0 THEN 0 ELSE col0
    IN  index_at_row_col(b, row, col)

(***************************************************************************)
(* Selection, main.c:145-154.                                              *)
(***************************************************************************)
sel_has(s) == s.active /\ s.anchor # s.caret
sel_a(s) == mini(s.anchor, s.caret)
sel_z(s) == maxi(s.anchor, s.caret)
sel_set_single(idx) == [active |-> FALSE, anchor |-> idx, caret |-> idx]

(***************************************************************************)
(* State shared by the specifications.                                     *)
(***************************************************************************)
\* What a pass polls when nothing happens.  visibleRows follows the window
\* height; menu is the item of an open File or Edit menu that is clicked;
\* shortRead and shortWrite below 0 mean the whole count.
Idle == [visibleRows |-> WindowRows, menu |-> "none", ctrl |-> FALSE, shift |-> FALSE,
         mousePressed |-> FALSE, mouseDown |-> FALSE, mouseReleased |-> FALSE,
         mouseInText |-> FALSE, dy |-> 0, dx |-> 0, wheel |-> 0,
         keyO |-> FALSE, keyS |-> FALSE, keyA |-> FALSE, keyC |-> FALSE,
         keyX |-> FALSE, keyV |-> FALSE, keyEnter |-> FALSE,
         bsPressed |-> FALSE, bsDown |-> FALSE, chars |-> <<>>,
         keyLeft |-> FALSE, keyRight |-> FALSE, keyHome |-> FALSE,
         keyEnd |-> FALSE, keyUp |-> FALSE, keyDown |-> FALSE, now |-> 0,
         openPath |-> FALSE,
         file |-> [exists |-> FALSE, data |-> <<>>, whole |-> FALSE],
         io |-> "ok", shortRead |-> 0 - 1, savePath |-> FALSE, fopenOk |-> TRUE,
         shortWrite |-> 0 - 1, allocOk |-> TRUE, ub |-> "write", tmpOk |-> TRUE]

NoOp == [op |-> "none", s |-> <<>>, a |-> 0, z |-> 0, allocOk |-> TRUE,
         ub |-> "none", ret |-> FALSE, io |-> "none", got |-> 0]

NoDisk == [exists |-> FALSE, data |-> <<>>, whole |-> FALSE]

Snapshot == [buf |-> buf, sel |-> sel, scrollRow |-> scrollRow]

\* pre when the last step was not a call that is recorded.
NoSnapshot == [buf |-> buf_init(TRUE), sel |-> sel_set_single(0), scrollRow |-> 0]

NoWrap == [pc |-> "idle", line |-> <<>>, maxWidth |-> 0, glyph |-> [c \in {} |-> 0],
           n |-> 0, ret |-> 0, off |-> 0, segs |-> <<>>,
           drawnVisual |-> 0, visibleRows |-> 0]

\* main.c:359-360, 377: the state after construction.
StartInit ==
    /\ \E mallocOk \in BOOLEAN : buf = buf_init(mallocOk)
    /\ sel = sel_set_single(0)
    /\ scrollRow = 0
    /\ disk = NoDisk
    /\ crashed = FALSE
    /\ last = NoOp
    /\ pre = NoSnapshot
    /\ ui = [desiredCol |-> 0, dragging |-> FALSE, dirty |-> FALSE,
             bsNext |-> 0, bsHeldPrev |-> FALSE, hasPath |-> FALSE]
    /\ clip = <<>>
    /\ now = 0

(***************************************************************************)
(* SpecBuf: the buffer operations applied one at a time, with any          *)
(* arguments, from the buffer buf_init leaves.                             *)
(***************************************************************************)
\* Strings of BufBytes of length 0..n.
RECURSIVE StringsUpTo(_, _)
StringsUpTo(S, n) ==
    IF n = 0 THEN {<<>>}
    ELSE LET shorter == StringsUpTo(S, n - 1) IN
         shorter \cup {Append(t, c) : t \in shorter, c \in S}

\* Longest string given to one insert.
MaxIns == 2

InsStrings == StringsUpTo(BufBytes, MaxIns)

BufRest == UNCHANGED <<sel, scrollRow, disk, wrap, ui, clip, now>>

BufInsert ==
    /\ ~crashed
    /\ \E s \in InsStrings, allocOk \in BOOLEAN, ub \in {"write", "crash"} :
        /\ buf.len + Len(s) <= MaxLen
        /\ LET over == InsertOverflows(buf, s, allocOk) IN
           /\ over \/ ub = "write"
           /\ pre' = Snapshot
           /\ last' = [NoOp EXCEPT !.op = "insert", !.s = s, !.allocOk = allocOk,
                                   !.ub = IF over THEN ub ELSE "none"]
           /\ IF over /\ ub = "crash"
              THEN crashed' = TRUE /\ buf' = buf
              ELSE crashed' = FALSE /\ buf' = buf_insert_bytes(buf, s, allocOk)
    /\ BufRest

\* Arguments given to buf_delete_range: below 0 and beyond len included.
DelArgs == (0 - 1)..(MaxLen + 1)

BufDeleteRange ==
    /\ ~crashed
    /\ \E a \in DelArgs, z \in DelArgs :
        /\ pre' = Snapshot
        /\ last' = [NoOp EXCEPT !.op = "delete", !.a = a, !.z = z]
        /\ buf' = buf_delete_range(buf, a, z)
    /\ UNCHANGED crashed
    /\ BufRest

BufBackspace ==
    /\ ~crashed
    /\ pre' = Snapshot
    /\ last' = [NoOp EXCEPT !.op = "backspace"]
    /\ buf' = buf_backspace(buf)
    /\ UNCHANGED crashed
    /\ BufRest

\* main assigns buf.cursor directly (main.c:447, 450, 457, 570-601).
BufSetCursor ==
    /\ ~crashed
    /\ \E c \in 0..buf.len :
        /\ pre' = Snapshot
        /\ last' = [NoOp EXCEPT !.op = "cursor", !.a = c]
        /\ buf' = [buf EXCEPT !.cursor = c]
    /\ UNCHANGED crashed
    /\ BufRest

\* buf_insert_bytes(s) at the cursor c, then buf_delete_range(c, c + |s|),
\* the allocation succeeding.
BufInsertDelete ==
    /\ ~crashed
    /\ \E s \in InsStrings \ {<<>>} :
        /\ pre' = Snapshot
        /\ last' = [NoOp EXCEPT !.op = "insert_delete", !.s = s]
        /\ buf' = buf_delete_range(buf_insert_bytes(buf, s, TRUE),
                                   buf.cursor, buf.cursor + Len(s))
    /\ UNCHANGED crashed
    /\ BufRest

InitBuf == StartInit /\ wrap = NoWrap

NextBuf ==
    \/ BufInsert
    \/ BufDeleteRange
    \/ BufBackspace
    \/ BufSetCursor
    \/ BufInsertDelete

SpecBuf == InitBuf /\ [][NextBuf]_vars

(***************************************************************************)
(* SpecIndex: index_at_row_col and index_from_mouse called with any        *)
(* arguments on every content of up to MaxLen bytes.                       *)
(***************************************************************************)
\* The content is built by inserts at any cursor, the allocation succeeding.
IndexInsert ==
    /\ ~crashed
    /\ \E s \in InsStrings \ {<<>>}, c \in 0..buf.len :
        /\ buf.len + Len(s) <= MaxLen
        /\ buf' = buf_insert_bytes([buf EXCEPT !.cursor = c], s, TRUE)
    /\ pre' = NoSnapshot
    /\ last' = [NoOp EXCEPT !.op = "insert"]
    /\ UNCHANGED crashed
    /\ BufRest

\* index_at_row_col(row, col) with any row and column, also negative and
\* past the last row and the end of the row; got is what it returns.
IdxArgs == (0 - 2)..(MaxLen + 1)

IndexAt ==
    /\ ~crashed
    /\ \E row \in IdxArgs, col \in IdxArgs :
        /\ pre' = Snapshot
        /\ last' = [NoOp EXCEPT !.op = "index", !.a = row, !.z = col,
                                !.got = index_at_row_col(buf, row, col)]
    /\ UNCHANGED <<buf, crashed>>
    /\ BufRest

\* Pointer positions relative to the corner of the text viewport, in
\* pixels: above, on and below its top edge, left and right of its left edge.
PointerDy == {0 - lineH - 1, 0 - 1, 0, lineH + 15, 3 * lineH}
PointerDx == {0 - charW, 5, 6, 2 * charW + 7}

\* index_from_mouse with scrollRow a row of the content; s is
\* <<scrollRow, dy, dx>>, got what it returns.
HitTest ==
    /\ ~crashed
    /\ \E scroll \in 0..(total_rows(buf) - 1), dy \in PointerDy, dx \in PointerDx :
        /\ pre' = Snapshot
        /\ last' = [NoOp EXCEPT !.op = "hit", !.s = <<scroll, dy, dx>>,
                                !.got = index_from_mouse(buf, scroll, dy, dx)]
    /\ UNCHANGED <<buf, crashed>>
    /\ BufRest

InitIndex == StartInit /\ wrap = NoWrap

NextIndex ==
    \/ IndexInsert
    \/ IndexAt
    \/ HitTest

SpecIndex == InitIndex /\ [][NextIndex]_vars

(***************************************************************************)
(* SpecGrow: buf_ensure called with sizes up to the largest int, from the  *)
(* block buf_init leaves (InitCap bytes here, so that the capacities are   *)
(* the powers of two, as those of the program are from 1024 on).           *)
(***************************************************************************)
\* The largest value of a 32-bit signed int, the type of cap, newcap and
\* needed.
IntMax == 2147483647

\* The doubling loop of buf_ensure multiplies a newcap above IntMax / 2 by
\* 2: signed overflow.
RECURSIVE GrowOverflows(_, _)
GrowOverflows(newcap, needed) ==
    IF newcap >= needed THEN FALSE
    ELSE IF newcap > IntMax \div 2 THEN TRUE
    ELSE GrowOverflows(newcap * 2, needed)

\* Sizes asked for from a block of cap bytes: just above it, two and more
\* doublings away, around 2^30 and the largest int.
GrowNeeds(cap) ==
    {n \in {cap + 1, 2^30, 2^30 + 1, IntMax}
            \cup (IF cap < 2^29 THEN {2 * cap, 2 * cap + 1, 4 * cap} ELSE {}) :
        cap < n}

\* The overflow is undefined behaviour: with wrapping arithmetic newcap goes
\* to -2^31 and then to 0, where the loop stays for ever; a build that traps
\* ends the process.  Either way the call does not return.
GrowOutcomes(cap, needed) ==
    IF GrowOverflows(cap, needed) THEN {"hang", "trap"} ELSE {"none"}

\* buf_ensure(needed).
GrowEnsure ==
    /\ ~crashed
    /\ \E needed \in GrowNeeds(buf.cap), allocOk \in BOOLEAN :
        \E ub \in GrowOutcomes(buf.cap, needed) :
            /\ pre' = Snapshot
            /\ last' = [NoOp EXCEPT !.op = "ensure", !.a = needed,
                                    !.allocOk = allocOk, !.ub = ub]
            /\ crashed' = (ub # "none")
            /\ buf' = IF ub = "none" THEN buf_ensure(buf, needed, allocOk) ELSE buf
    /\ BufRest

InitGrow == StartInit /\ wrap = NoWrap

NextGrow == GrowEnsure

SpecGrow == InitGrow /\ [][NextGrow]_vars

(***************************************************************************)
(* Soft wrap, main.c:202-222, and the loop of the draw code that applies   *)
(* it to one logical line, main.c:644-697.                                 *)
(***************************************************************************)
\* sizeof(tmp) - 1, the most bytes one call measures.  The program's tmp
\* holds 4096 bytes (main.c:206); the model scales the limit down so that
\* lines longer than it occur within MaxLine bytes.
TmpLimit == 3
\* Longest logical line wrapped.
MaxLine == 4
\* Widest glyph and widest viewport, in pixels.
MaxGlyph == 2
MaxWidth == 4

WrapBytes == {SP, 97}

\* MeasureTextEx(font, text, fontSize, 0).x of raylib: the sum of the
\* advances of the glyphs of text; glyph gives each byte's advance.
RECURSIVE MeasureTextEx(_, _)
MeasureTextEx(glyph, text) ==
    IF text = <<>> THEN 0
    ELSE glyph[Head(text)] + MeasureTextEx(glyph, Tail(text))

\* The for loop of wrap_fit_count from index i on.
RECURSIVE WrapScan(_, _, _, _, _, _)
WrapScan(glyph, maxWidth, s, takeMax, i, lastSpace) ==
    IF i < takeMax
    THEN LET sp == IF s[i + 1] = SP THEN i ELSE lastSpace
             w  == MeasureTextEx(glyph, SubSeq(s, 1, i + 1))
         IN  IF w > maxWidth
             THEN IF sp >= 0 THEN sp + 1
                  ELSE IF i > 0 THEN i ELSE 1
             ELSE WrapScan(glyph, maxWidth, s, takeMax, i + 1, sp)
    ELSE takeMax

\* Mutants of the for loop: the forced break returns i also when i is 0;
\* the forced break takes the byte that did not fit.
RECURSIVE WrapScanZero(_, _, _, _, _, _)
WrapScanZero(glyph, maxWidth, s, takeMax, i, lastSpace) ==
    IF i < takeMax
    THEN LET sp == IF s[i + 1] = SP THEN i ELSE lastSpace
             w  == MeasureTextEx(glyph, SubSeq(s, 1, i + 1))
         IN  IF w > maxWidth
             THEN IF sp >= 0 THEN sp + 1 ELSE i
             ELSE WrapScanZero(glyph, maxWidth, s, takeMax, i + 1, sp)
    ELSE takeMax

RECURSIVE WrapScanOver(_, _, _, _, _, _)
WrapScanOver(glyph, maxWidth, s, takeMax, i, lastSpace) ==
    IF i < takeMax
    THEN LET sp == IF s[i + 1] = SP THEN i ELSE lastSpace
             w  == MeasureTextEx(glyph, SubSeq(s, 1, i + 1))
         IN  IF w > maxWidth
             THEN IF sp >= 0 THEN sp + 1 ELSE i + 1
             ELSE WrapScanOver(glyph, maxWidth, s, takeMax, i + 1, sp)
    ELSE takeMax

wrap_fit_count_zero(glyph, maxWidth, s, n) ==
    IF n <= 0 THEN 0
    ELSE WrapScanZero(glyph, maxWidth, s, IF n < TmpLimit THEN n ELSE TmpLimit, 0, 0 - 1)

wrap_fit_count_over(glyph, maxWidth, s, n) ==
    IF n <= 0 THEN 0
    ELSE WrapScanOver(glyph, maxWidth, s, IF n < TmpLimit THEN n ELSE TmpLimit, 0, 0 - 1)

\* Mutant of the for loop: the space the break is made at is left to the
\* next segment.
RECURSIVE WrapScanCarry(_, _, _, _, _, _)
WrapScanCarry(glyph, maxWidth, s, takeMax, i, lastSpace) ==
    IF i < takeMax
    THEN LET sp == IF s[i + 1] = SP THEN i ELSE lastSpace
             w  == MeasureTextEx(glyph, SubSeq(s, 1, i + 1))
         IN  IF w > maxWidth
             THEN IF sp > 0 THEN sp
                  ELSE IF i > 0 THEN i ELSE 1
             ELSE WrapScanCarry(glyph, maxWidth, s, takeMax, i + 1, sp)
    ELSE takeMax

wrap_fit_count_carry(glyph, maxWidth, s, n) ==
    IF n <= 0 THEN 0
    ELSE WrapScanCarry(glyph, maxWidth, s, IF n < TmpLimit THEN n ELSE TmpLimit, 0, 0 - 1)

\* wrap_fit_count(font, fontSize, maxWidth, s, n): s is the bytes from the
\* pointer on, n the count the caller allows.
wrap_fit_count(glyph, maxWidth, s, n) ==
    IF n <= 0 THEN 0
    ELSE WrapScan(glyph, maxWidth, s, IF n < TmpLimit THEN n ELSE TmpLimit, 0, 0 - 1)

WrapLines == StringsUpTo(WrapBytes, MaxLine)

WrapRest == UNCHANGED <<buf, sel, scrollRow, disk, crashed, last, pre, ui, clip, now>>

\* A call of wrap_fit_count on the line with any n up to its length,
\* n <= 0 included.  The result does not depend on the height of the
\* window, so the call is made under one height only.
WrapFitCall ==
    /\ wrap.pc = "start"
    /\ wrap.visibleRows = 1
    /\ \E n \in (0 - 1)..Len(wrap.line) :
            wrap' = [wrap EXCEPT
                !.pc = "called", !.n = n,
                !.ret = wrap_fit_count(wrap.glyph, wrap.maxWidth, wrap.line, n)]
    /\ WrapRest

\* The condition of the while loop, main.c:645 (lineLen is not 0 there).
WrapLoopRuns ==
    /\ Len(wrap.line) # 0
    /\ wrap.off < Len(wrap.line)
    /\ wrap.drawnVisual < wrap.visibleRows

\* One pass of the while loop: the call, the two clamps of take, then
\* drawnVisual++ and off += take.  segs keeps <<off, returned, take>>.
WrapLoopStep ==
    /\ wrap.pc \in {"start", "loop"}
    /\ WrapLoopRuns
    /\ LET remaining == Len(wrap.line) - wrap.off
           ret == wrap_fit_count(wrap.glyph, wrap.maxWidth,
                      SubSeq(wrap.line, wrap.off + 1, Len(wrap.line)), remaining)
           take1 == IF ret <= 0 THEN 1 ELSE ret
           take == IF take1 > remaining THEN remaining ELSE take1
       IN  wrap' = [wrap EXCEPT
                !.pc = "loop", !.n = remaining, !.ret = ret,
                !.segs = Append(wrap.segs, <<wrap.off, ret, take>>),
                !.drawnVisual = wrap.drawnVisual + 1,
                !.off = wrap.off + take]
    /\ WrapRest

WrapLoopExit ==
    /\ wrap.pc \in {"start", "loop"}
    /\ Len(wrap.line) # 0
    /\ ~WrapLoopRuns
    /\ wrap' = [wrap EXCEPT !.pc = "done"]
    /\ WrapRest

\* The rows left in the viewport when the loop starts: one, or enough for
\* every byte of the line.
WrapVisible == {1, MaxLine + 1}

InitWrap ==
    /\ buf = buf_init(TRUE)
    /\ sel = sel_set_single(0)
    /\ scrollRow = 0
    /\ disk = NoDisk
    /\ crashed = FALSE
    /\ last = NoOp
    /\ pre = NoSnapshot
    /\ ui = [desiredCol |-> 0, dragging |-> FALSE, dirty |-> FALSE,
             bsNext |-> 0, bsHeldPrev |-> FALSE, hasPath |-> FALSE]
    /\ clip = <<>>
    /\ now = 0
    /\ \E line \in WrapLines, maxWidth \in (0 - 1)..MaxWidth,
          glyph \in [WrapBytes -> 0..MaxGlyph], visibleRows \in WrapVisible :
        wrap = [NoWrap EXCEPT !.pc = "start", !.line = line,
                              !.maxWidth = maxWidth, !.glyph = glyph,
                              !.visibleRows = visibleRows]

NextWrap == WrapFitCall \/ WrapLoopStep \/ WrapLoopExit

SpecWrap == InitWrap /\ [][NextWrap]_vars

(***************************************************************************)
(* The files, main.c:171-200.                                              *)
(***************************************************************************)
\* save_to_path: fopen "wb" empties the file, fwrite puts wrote bytes of
\* the buffer there.  whole remembers that every byte was written.
save_to_path(b, d, fopenOk, wrote) ==
    IF ~fopenOk THEN [disk |-> d, ret |-> FALSE]
    ELSE [disk |-> [exists |-> TRUE,
                    data |-> [i \in 1..wrote |-> b.data[i]],
                    whole |-> wrote = b.len],
          ret |-> wrote = b.len]

\* load_from_path: io names the call that fails ("fopen", "fseek", "ftell")
\* or is "ok"; got is what fread returns, at most the size of the file.
\* fread stores into data whether or not buf_ensure made room.
load_from_path(b, s, scroll, file, io, got, allocOk) ==
    IF io # "ok" \/ ~file.exists
    THEN [buf |-> b, sel |-> s, scrollRow |-> scroll, ret |-> FALSE]
    ELSE LET e == buf_ensure(b, Len(file.data) + 1, allocOk) IN
         IF ~e.ok
         THEN [buf |-> e, sel |-> s, scrollRow |-> scroll, ret |-> FALSE]
         ELSE [buf |-> [e EXCEPT !.data = [i \in 1..got |-> file.data[i]],
                                 !.len = got,
                                 !.cursor = got],
               sel |-> sel_set_single(got),
               scrollRow |-> 0,
               ret |-> TRUE]

\* fread and the NUL after it write got + 1 bytes into a block of cap bytes.
LoadOverflows(b, file, io, got, allocOk) ==
    /\ io = "ok"
    /\ file.exists
    /\ LET e == buf_ensure(b, Len(file.data) + 1, allocOk) IN
       e.ok /\ got + 1 > e.cap

(***************************************************************************)
(* One pass of the loop of main, main.c:399-813: the input handling and    *)
(* the menu items handled while drawing.  e is the state (buf, sel,        *)
(* scrollRow, ui, clip, crashed), in what the pass polls: the keys, the    *)
(* mouse, the clock, and what the dialogs, the file calls and the          *)
(* allocator answer.                                                       *)
(***************************************************************************)
\* A write past the block either lands or kills the process there.
Crash(e) == [e EXCEPT !.crashed = TRUE]

EdInsert(e, s, in) ==
    IF InsertOverflows(e.buf, s, in.allocOk) /\ in.ub = "crash" THEN Crash(e)
    ELSE [e EXCEPT !.buf = buf_insert_bytes(e.buf, s, in.allocOk)]

\* Mutant of EdCut: the selection is not collapsed after the delete.
EdCut_keep_selection(e, b) == [e EXCEPT !.buf = b]

\* buf_delete_range(sel_a, sel_z); sel_set_single(cursor);
EdCut(e, b) == [e EXCEPT !.buf = b, !.sel = sel_set_single(b.cursor)]

\* Mutant of EdDeleteSelection: the selection is left in the buffer.
EdDeleteSelection_skip(e) == e

\* if (sel_has) { buf_delete_range(sel_a, sel_z); sel_set_single(cursor); }
EdDeleteSelection(e) ==
    IF sel_has(e.sel)
    THEN EdCut(e, buf_delete_range(e.buf, sel_a(e.sel), sel_z(e.sel)))
    ELSE e

\* Mutant of EdCollapse: sel_set_single after an edit is left out.
EdCollapse_skip(e) == e

EdCollapse(e) == [e EXCEPT !.sel = sel_set_single(e.buf.cursor)]

\* sel_set_single(cursor); dirty = true; after an insert that came back.
EdEdited(e) ==
    IF e.crashed THEN e ELSE [EdCollapse(e) EXCEPT !.ui.dirty = TRUE]

\* Mutant of EdActivate: the anchor is set anew although the selection is
\* active.
EdActivate_always(e) ==
    [e EXCEPT !.sel = [active |-> TRUE, anchor |-> e.buf.cursor,
                       caret |-> e.buf.cursor]]

\* if (!sel.active) { active = true; anchor = caret = cursor; }
EdActivate(e) ==
    IF ~e.sel.active
    THEN [e EXCEPT !.sel = [active |-> TRUE, anchor |-> e.buf.cursor,
                            caret |-> e.buf.cursor]]
    ELSE e

\* Mutant of EdCaretTo: the cursor moves and the caret stays.
EdCaretTo_cursor_only(e, idx) == [e EXCEPT !.buf.cursor = idx]

\* buf.cursor = idx; sel.caret = buf.cursor;
EdCaretTo(e, idx) == [e EXCEPT !.buf.cursor = idx, !.sel.caret = idx]

EdExtendTo(e, idx) == EdCaretTo(EdActivate(e), idx)

\* main.c:431-433.
MaxScroll(e, in) == maxi(total_rows(e.buf) - in.visibleRows, 0)

\* main.c:443-452.
MousePress(e, in) ==
    IF in.mousePressed /\ in.mouseInText
    THEN IF ~in.shift
         THEN [e EXCEPT !.ui.dragging = TRUE,
                        !.buf.cursor = index_from_mouse(e.buf, e.scrollRow, in.dy, in.dx),
                        !.sel = sel_set_single(
                                    index_from_mouse(e.buf, e.scrollRow, in.dy, in.dx))]
         ELSE [EdExtendTo(e, index_from_mouse(e.buf, e.scrollRow, in.dy, in.dx))
                  EXCEPT !.ui.dragging = TRUE]
    ELSE e

\* main.c:454-458.
MouseDrag(e, in) ==
    IF e.ui.dragging /\ in.mouseDown /\ in.mouseInText
    THEN EdExtendTo(e, index_from_mouse(e.buf, e.scrollRow, in.dy, in.dx))
    ELSE e

\* main.c:459.
MouseRelease(e, in) ==
    IF in.mouseReleased THEN [e EXCEPT !.ui.dragging = FALSE] ELSE e

\* main.c:443-459.
TickMouse(e, in) == MouseRelease(MouseDrag(MousePress(e, in), in), in)

\* main.c:461-465.
TickWheel(e, in, maxScroll) ==
    IF in.wheel # 0
    THEN [e EXCEPT !.scrollRow = clampi(e.scrollRow - in.wheel, 0, maxScroll)]
    ELSE e

\* What fread returns for a file of size bytes: all of them, or fewer.
Got(in, size) == IF in.shortRead < 0 \/ in.shortRead > size THEN size ELSE in.shortRead
Wrote(in, len) == IF in.shortWrite < 0 \/ in.shortWrite > len THEN len ELSE in.shortWrite

\* What the callers of do_open do with the result r of load_from_path:
\* hasPath = true (main.c:303) and dirty = false (main.c:470) on success.
Opened(e, r) ==
    IF r.ret
    THEN [e EXCEPT !.buf = r.buf, !.sel = r.sel, !.scrollRow = r.scrollRow,
                   !.ui.hasPath = TRUE, !.ui.dirty = FALSE]
    ELSE [e EXCEPT !.buf = r.buf]

\* do_open, main.c:294-306: the dialog gives a path or none.
do_open(e, in) ==
    IF e.crashed \/ ~in.openPath THEN e
    ELSE IF LoadOverflows(e.buf, in.file, in.io, Got(in, Len(in.file.data)), in.allocOk)
            /\ in.ub = "crash"
    THEN Crash(e)
    ELSE Opened(e, load_from_path(e.buf, e.sel, e.scrollRow, in.file, in.io,
                                  Got(in, Len(in.file.data)), in.allocOk))

\* main.c:468-473.
TickOpen(e, in) == IF in.ctrl /\ in.keyO THEN do_open(e, in) ELSE e

\* do_save_as, main.c:308-321: the dialog gives a path or none.  The file
\* written belongs to the environment; the pass keeps only the result.
do_save_as(e, in) ==
    IF e.crashed \/ ~in.savePath THEN e
    ELSE IF save_to_path(e.buf, NoDisk, in.fopenOk, Wrote(in, e.buf.len)).ret
    THEN [e EXCEPT !.ui.hasPath = TRUE, !.ui.dirty = FALSE]
    ELSE e

\* do_save, main.c:323-326.
do_save(e, in) ==
    IF e.crashed THEN e
    ELSE IF e.ui.hasPath
    THEN IF save_to_path(e.buf, NoDisk, in.fopenOk, Wrote(in, e.buf.len)).ret
         THEN [e EXCEPT !.ui.dirty = FALSE]
         ELSE e
    ELSE do_save_as(e, in)

\* main.c:475-487.
TickSave(e, in) ==
    IF in.ctrl /\ in.keyS /\ ~in.shift THEN do_save(e, in)
    ELSE IF in.ctrl /\ in.keyS /\ in.shift THEN do_save_as(e, in)
    ELSE e

\* The C string SetClipboardText and strlen see: the bytes before a NUL.
RECURSIVE CStr(_)
CStr(s) == IF s = <<>> \/ Head(s) = 0 THEN <<>> ELSE <<Head(s)>> \o CStr(Tail(s))

\* tmp of main.c:495-497: the selected bytes, NUL-terminated.
Selected(e) == CStr(SubSeq(e.buf.data, sel_a(e.sel) + 1, sel_z(e.sel)))

\* main.c:492.
EditSelectAll(e, in) ==
    IF ~e.crashed /\ in.ctrl /\ in.keyA
    THEN [e EXCEPT !.sel = [active |-> TRUE, anchor |-> 0, caret |-> e.buf.len],
                   !.buf.cursor = e.buf.len]
    ELSE e

\* main.c:493-497: nothing is copied when malloc gives no tmp.
EditCopy(e, in) ==
    IF ~e.crashed /\ in.ctrl /\ in.keyC /\ sel_has(e.sel) /\ in.tmpOk
    THEN [e EXCEPT !.clip = Selected(e)]
    ELSE e

\* main.c:498-505.
EditCut(e, in) ==
    IF ~e.crashed /\ in.ctrl /\ in.keyX /\ sel_has(e.sel)
    THEN [EdCut(e, buf_delete_range(e.buf, sel_a(e.sel), sel_z(e.sel)))
             EXCEPT !.clip = IF in.tmpOk THEN Selected(e) ELSE e.clip,
                    !.ui.dirty = TRUE]
    ELSE e

\* main.c:506-514.
EditPaste(e, in) ==
    IF ~e.crashed /\ in.ctrl /\ in.keyV /\ e.clip # <<>>
    THEN EdEdited(EdInsert(EdDeleteSelection(e), e.clip, in))
    ELSE e

\* main.c:492-514: select all, copy, cut, paste.
TickEditKeys(e, in) == EditPaste(EditCut(EditCopy(EditSelectAll(e, in), in), in), in)

\* main.c:517-522.
TickEnter(e, in) ==
    IF ~e.crashed /\ in.keyEnter
    THEN EdEdited(EdInsert(EdDeleteSelection(e), <<NL>>, in))
    ELSE e

\* BS_INITIAL_DELAY and BS_REPEAT_RATE, main.c:391-392, in milliseconds.
BS_INITIAL_DELAY == 320
BS_REPEAT_RATE == 45

\* if (sel_has) buf_delete_range(...); else buf_backspace(); sel_set_single;
\* dirty = true;
EdBackspace(e) ==
    [e EXCEPT !.buf = IF sel_has(e.sel)
                      THEN buf_delete_range(e.buf, sel_a(e.sel), sel_z(e.sel))
                      ELSE buf_backspace(e.buf),
              !.ui.dirty = TRUE]

\* Mutant of TickBackspace: the first repeat waits BS_REPEAT_RATE only.
TickBackspace_no_delay(e, in) ==
    IF e.crashed THEN e
    ELSE IF in.bsPressed
    THEN [EdCollapse(EdBackspace(e)) EXCEPT !.ui.bsNext = in.now + BS_REPEAT_RATE,
                                            !.ui.bsHeldPrev = TRUE]
    ELSE IF in.bsDown /\ e.ui.bsHeldPrev /\ in.now >= e.ui.bsNext
    THEN [EdCollapse(EdBackspace(e)) EXCEPT !.ui.bsNext = in.now + BS_REPEAT_RATE]
    ELSE IF ~in.bsDown
    THEN [e EXCEPT !.ui.bsHeldPrev = FALSE]
    ELSE e

\* main.c:525-543.
TickBackspace(e, in) ==
    IF e.crashed THEN e
    ELSE IF in.bsPressed
    THEN [EdCollapse(EdBackspace(e)) EXCEPT !.ui.bsNext = in.now + BS_INITIAL_DELAY,
                                            !.ui.bsHeldPrev = TRUE]
    ELSE IF in.bsDown /\ e.ui.bsHeldPrev /\ in.now >= e.ui.bsNext
    THEN [EdCollapse(EdBackspace(e)) EXCEPT !.ui.bsNext = in.now + BS_REPEAT_RATE]
    ELSE IF ~in.bsDown
    THEN [e EXCEPT !.ui.bsHeldPrev = FALSE]
    ELSE e

\* main.c:550-558, after the selection is deleted: a tab gives four
\* spaces, a character of 32..126 itself, any other nothing.
TypeChar(e, ch, in) ==
    IF ch = 9 THEN EdEdited(EdInsert(e, <<SP, SP, SP, SP>>, in))
    ELSE IF ch >= 32 /\ ch <= 126 THEN EdEdited(EdInsert(e, <<ch>>, in))
    ELSE EdCollapse(e)

\* main.c:546-560: the while loop over GetCharPressed, chars the queue.
RECURSIVE TickTyping(_, _, _)
TickTyping(e, chars, in) ==
    IF chars = <<>> \/ e.crashed THEN e
    ELSE TickTyping(TypeChar(EdDeleteSelection(e), Head(chars), in), Tail(chars), in)

\* if (shift) sel.caret = buf.cursor; else sel_set_single(&sel, buf.cursor);
EdMoved(e, c, in) ==
    IF in.shift THEN [e EXCEPT !.buf.cursor = c, !.sel.caret = c]
    ELSE [e EXCEPT !.buf.cursor = c, !.sel = sel_set_single(c)]

\* main.c:567.
MoveShift(e, in) == IF in.shift THEN EdActivate(e) ELSE e

\* main.c:569-576.
MoveLeft(e, in) ==
    IF in.keyLeft
    THEN EdMoved(e, IF e.buf.cursor > 0 THEN e.buf.cursor - 1 ELSE e.buf.cursor, in)
    ELSE e

MoveRight(e, in) ==
    IF in.keyRight
    THEN EdMoved(e, IF e.buf.cursor < e.buf.len THEN e.buf.cursor + 1
                    ELSE e.buf.cursor, in)
    ELSE e

\* main.c:580-587.
MoveHome(e, in) == IF in.keyHome THEN EdMoved(e, move_home(e.buf).cursor, in) ELSE e

MoveEnd(e, in) == IF in.keyEnd THEN EdMoved(e, move_end(e.buf).cursor, in) ELSE e

\* main.c:591-596, cur the row and column found at main.c:589.
MoveUp(e, cur, in) ==
    IF in.keyUp
    THEN [EdMoved(e, index_at_row_col(e.buf, IF cur.row > 0 THEN cur.row - 1 ELSE 0,
                                      cur.col), in)
             EXCEPT !.ui.desiredCol = cur.col]
    ELSE e

\* main.c:597-603: the row and column are still those of main.c:589.
MoveDown(e, cur, in) ==
    IF in.keyDown
    THEN [EdMoved(e, index_at_row_col(e.buf,
                                      IF cur.row < total_rows(e.buf) - 1
                                      THEN cur.row + 1 ELSE total_rows(e.buf) - 1,
                                      cur.col), in)
             EXCEPT !.ui.desiredCol = cur.col]
    ELSE e

MoveVertical(e, in) ==
    MoveDown(MoveUp(e, cursor_row_col(e.buf), in), cursor_row_col(e.buf), in)

\* main.c:605-606.
MoveSync(e, in) ==
    IF ~in.shift THEN [e EXCEPT !.ui.desiredCol = cursor_row_col(e.buf).col] ELSE e

\* main.c:563-606.
TickMove(e, in) ==
    IF e.crashed THEN e
    ELSE MoveSync(MoveVertical(MoveEnd(MoveHome(MoveRight(MoveLeft(
             MoveShift(e, in), in), in), in), in), in), in)

\* main.c:605-610 with the row found at main.c:605.
ScrollTo(e, curRow, visibleRows, maxScroll) ==
    clampi(IF curRow >= mini(curRow, e.scrollRow) + visibleRows
           THEN curRow - visibleRows + 1
           ELSE mini(curRow, e.scrollRow),
           0, maxScroll)

TickScroll(e, in, maxScroll) ==
    IF e.crashed THEN e
    ELSE [e EXCEPT !.scrollRow = ScrollTo(e, cursor_row_col(e.buf).row,
                                          in.visibleRows, maxScroll)]

\* main.c:732-779: the items of the File and Edit menus, handled while the
\* frame is drawn.  menu_item_lr answers on the release of the button over
\* an item of the open menu.  Cut, Copy and Paste of the Edit menu only close
\* the menu; Quit ends the loop.
TickMenu(e, in) ==
    IF e.crashed THEN e
    ELSE IF in.menu = "open" THEN do_open(e, in)
    ELSE IF in.menu = "save" THEN do_save(e, in)
    ELSE IF in.menu = "save_as" THEN do_save_as(e, in)
    ELSE IF in.menu = "select_all"
    THEN [e EXCEPT !.sel = [active |-> TRUE, anchor |-> 0, caret |-> e.buf.len],
                   !.buf.cursor = e.buf.len]
    ELSE e

\* The input handling of a pass: maxScroll is computed once, before any
\* input is handled (main.c:431-433).
TickInput(e, in, maxScroll) ==
    TickScroll(TickMove(TickTyping(TickBackspace(TickEnter(TickEditKeys(TickSave(
        TickOpen(TickWheel(TickMouse(e, in), in, maxScroll), in), in), in), in), in),
        in.chars, in), in), in, maxScroll)

\* The pass.
Tick(e, in) == TickMenu(TickInput(e, in, MaxScroll(e, in)), in)

(***************************************************************************)
(* Spec: the editor, one pass of the loop per step.                        *)
(***************************************************************************)
Cur == [buf |-> buf, sel |-> sel, scrollRow |-> scrollRow, ui |-> ui,
        clip |-> clip, crashed |-> crashed]

\* Longest content and longest clipboard text the editor is followed to.
MaxDoc == 2
MaxClip == 1

\* The pass with the inputs in.  Passes that would make the content longer
\* than MaxDoc, or the clipboard text longer than MaxClip, are not taken.
\* The window keeps its height and the clock stands still: the timing of the
\* backspace repeat is not followed here.
DoTick(in) ==
    /\ ~crashed
    /\ \E e \in {Tick(Cur, in)} :
        /\ e.buf.len <= MaxDoc
        /\ Len(e.clip) <= MaxClip
        /\ buf' = e.buf
        /\ sel' = e.sel
        /\ scrollRow' = e.scrollRow
        /\ ui' = e.ui
        /\ clip' = e.clip
        /\ crashed' = e.crashed
    /\ last' = [NoOp EXCEPT !.op = "tick"]
    /\ pre' = NoSnapshot
    /\ UNCHANGED <<disk, wrap, now>>

\* The modifiers and the clock of a pass.
Frame(shift) == [Idle EXCEPT !.shift = shift, !.now = now]
Frames == {Frame(shift) : shift \in BOOLEAN}
Ctrl == [Frame(FALSE) EXCEPT !.ctrl = TRUE]

\* What the allocator answers, and what a write past the block does.
Allocs == {[allocOk |-> TRUE, ub |-> "write"], [allocOk |-> FALSE, ub |-> "write"],
           [allocOk |-> FALSE, ub |-> "crash"]}

\* Files the open dialog can name.
FileContents == {<<97>>, <<NL, 97>>, <<97, NL, NL>>}
Files == {[exists |-> TRUE, data |-> d, whole |-> FALSE] : d \in FileContents}

MouseDy == {0, lineH + 15, 2 * lineH}
MouseDx == {charW - 4, 3 * charW + 4}

\* Characters GetCharPressed hands out: a letter, a tab, one beyond 126.
KeyType ==
    \/ \E f \in Frames, chars \in {<<97>>, <<9>>, <<200>>} :
        DoTick([f EXCEPT !.chars = chars])
    \/ \E m \in Allocs :
        DoTick([Frame(FALSE) EXCEPT !.chars = <<97, 97>>,
                                    !.allocOk = m.allocOk, !.ub = m.ub])

KeyEnter ==
    \E f \in Frames, allocOk \in BOOLEAN :
        DoTick([f EXCEPT !.keyEnter = TRUE, !.allocOk = allocOk])

KeyBackspace ==
    \/ \E f \in Frames :
        DoTick([f EXCEPT !.bsPressed = TRUE, !.bsDown = TRUE])
    \/ DoTick([Frame(FALSE) EXCEPT !.bsDown = TRUE])

KeyMove ==
    \E f \in Frames, k \in {"left", "right", "home", "end", "up", "down"} :
        DoTick([f EXCEPT !.keyLeft = (k = "left"), !.keyRight = (k = "right"),
                         !.keyHome = (k = "home"), !.keyEnd = (k = "end"),
                         !.keyUp = (k = "up"), !.keyDown = (k = "down")])

KeyEdit ==
    \/ DoTick([Ctrl EXCEPT !.keyA = TRUE])
    \/ \E tmpOk \in BOOLEAN :
        \/ DoTick([Ctrl EXCEPT !.keyC = TRUE, !.tmpOk = tmpOk])
        \/ DoTick([Ctrl EXCEPT !.keyX = TRUE, !.tmpOk = tmpOk])
    \/ \E m \in Allocs :
        DoTick([Ctrl EXCEPT !.keyV = TRUE, !.allocOk = m.allocOk, !.ub = m.ub])

\* The dialog is cancelled, the file cannot be read, it is read whole or
\* short, or the buffer cannot grow to hold it.
OpenInputs ==
    {[Idle EXCEPT !.openPath = FALSE]}
    \cup {[Idle EXCEPT !.openPath = TRUE, !.file = CHOOSE f \in Files : TRUE, !.io = io] :
            io \in {"fopen", "fseek", "ftell"}}
    \cup {[Idle EXCEPT !.openPath = TRUE, !.file = file, !.shortRead = short] :
            file \in Files, short \in {0 - 1, 1}}
    \cup {[Idle EXCEPT !.openPath = TRUE, !.file = file, !.allocOk = FALSE, !.ub = ub] :
            file \in Files, ub \in {"write", "crash"}}

KeyOpen ==
    \E o \in OpenInputs :
        DoTick([Ctrl EXCEPT !.keyO = TRUE, !.openPath = o.openPath, !.file = o.file,
                            !.io = o.io, !.shortRead = o.shortRead,
                            !.allocOk = o.allocOk, !.ub = o.ub])

\* The dialog is cancelled, or the file is not opened, written short or whole.
SaveInputs ==
    {[Idle EXCEPT !.savePath = FALSE]}
    \cup {[Idle EXCEPT !.savePath = TRUE, !.fopenOk = fopenOk, !.shortWrite = short] :
            fopenOk \in BOOLEAN, short \in {0 - 1, 0}}

KeySave ==
    \E s \in SaveInputs, shift \in BOOLEAN :
        DoTick([Ctrl EXCEPT !.keyS = TRUE, !.shift = shift, !.savePath = s.savePath,
                            !.fopenOk = s.fopenOk, !.shortWrite = s.shortWrite])

MouseButton ==
    \/ \E f \in Frames, dy \in MouseDy, dx \in MouseDx :
        DoTick([f EXCEPT !.mousePressed = TRUE, !.mouseDown = TRUE,
                         !.mouseInText = TRUE, !.dy = dy, !.dx = dx])
    \/ \E dy \in MouseDy, dx \in MouseDx :
        DoTick([Frame(FALSE) EXCEPT !.mouseDown = TRUE, !.mouseInText = TRUE,
                                    !.dy = dy, !.dx = dx])
    \/ DoTick([Frame(FALSE) EXCEPT !.mouseReleased = TRUE])

MouseWheel ==
    \E f \in Frames, wheel \in {0 - 1, 1} :
        DoTick([f EXCEPT !.wheel = wheel])

\* The button is released over an item of an open menu.  Opening the menu
\* changes nothing that is followed here.
MenuInputs ==
    {[Frame(FALSE) EXCEPT !.menu = "open", !.mouseReleased = TRUE,
                          !.openPath = o.openPath, !.file = o.file, !.io = o.io,
                          !.shortRead = o.shortRead, !.allocOk = o.allocOk,
                          !.ub = o.ub] : o \in OpenInputs}
    \cup {[Frame(FALSE) EXCEPT !.menu = m, !.mouseReleased = TRUE,
                               !.savePath = s.savePath, !.fopenOk = s.fopenOk,
                               !.shortWrite = s.shortWrite] :
            m \in {"save", "save_as"}, s \in SaveInputs}
    \cup {[Frame(FALSE) EXCEPT !.menu = "select_all", !.mouseReleased = TRUE]}

MenuItem == \E in \in MenuInputs : DoTick(in)

\* Several inputs in one pass.
KeyCombo ==
    \/ DoTick([Ctrl EXCEPT !.keyA = TRUE, !.chars = <<97>>])
    \/ DoTick([Frame(FALSE) EXCEPT !.keyEnter = TRUE, !.keyUp = TRUE])
    \/ DoTick([Frame(TRUE) EXCEPT !.keyUp = TRUE, !.keyDown = TRUE])
    \/ DoTick([Ctrl EXCEPT !.keyA = TRUE, !.keyX = TRUE, !.keyV = TRUE])
    \/ DoTick([Frame(FALSE) EXCEPT !.bsPressed = TRUE, !.bsDown = TRUE,
                                   !.chars = <<97>>, !.keyLeft = TRUE])

Init == StartInit /\ wrap = NoWrap

Next ==
    \/ KeyType
    \/ KeyEnter
    \/ KeyBackspace
    \/ KeyMove
    \/ KeyEdit
    \/ KeyOpen
    \/ KeySave
    \/ MouseButton
    \/ MouseWheel
    \/ MenuItem
    \/ KeyCombo

Spec == Init /\ [][Next]_vars

(***************************************************************************)
(* SpecFile: save_to_path and load_from_path called on one file, between   *)
(* passes of the editor that change the content, and with the file         *)
(* replaced from outside.  disk is the file; disk.whole says that it is    *)
(* what a save_to_path that returned true wrote.  last records the call    *)
(* (op, io, got, allocOk, ret) and pre the state before it.                *)
(***************************************************************************)
\* What an editor writes there, a non-printable byte included.
DiskContents == {<<1>>, <<97, NL>>, <<NL, 1, 97>>}

FileReplaced ==
    /\ ~crashed
    /\ \E d \in DiskContents :
        disk' = [exists |-> TRUE, data |-> d, whole |-> FALSE]
    /\ last' = [NoOp EXCEPT !.op = "replace"]
    /\ pre' = NoSnapshot
    /\ UNCHANGED <<buf, sel, scrollRow, crashed, wrap, ui, clip, now>>

\* The bytes fwrite or fread moves of size: all, or only short of them.
Moved(short, size) == IF short < 0 \/ short > size THEN size ELSE short

FileSave ==
    /\ ~crashed
    /\ \E fopenOk \in BOOLEAN, short \in {0 - 1, 1} :
        /\ disk' = save_to_path(buf, disk, fopenOk, Moved(short, buf.len)).disk
        /\ last' = [NoOp EXCEPT
                       !.op = "save",
                       !.io = IF fopenOk THEN "ok" ELSE "fopen",
                       !.got = Moved(short, buf.len),
                       !.ret = save_to_path(buf, disk, fopenOk,
                                            Moved(short, buf.len)).ret]
    /\ pre' = Snapshot
    /\ UNCHANGED <<buf, sel, scrollRow, crashed, wrap, ui, clip, now>>

\* load_from_path returns r, or the write past the block ends the process
\* before it returns.
FileLoaded(r, io, got, m) ==
    /\ buf' = r.buf
    /\ sel' = r.sel
    /\ scrollRow' = r.scrollRow
    /\ last' = [NoOp EXCEPT !.op = "load", !.io = io, !.got = got,
                            !.allocOk = m.allocOk, !.ret = r.ret]
    /\ UNCHANGED crashed

FileLoadCrashed ==
    /\ crashed' = TRUE
    /\ last' = [NoOp EXCEPT !.op = "load_crash"]
    /\ UNCHANGED <<buf, sel, scrollRow>>

FileLoad ==
    /\ ~crashed
    /\ \E io \in {"ok", "fopen", "fseek", "ftell"}, short \in {0 - 1, 1}, m \in Allocs :
        IF LoadOverflows(buf, disk, io, Moved(short, Len(disk.data)), m.allocOk)
           /\ m.ub = "crash"
        THEN FileLoadCrashed
        ELSE FileLoaded(load_from_path(buf, sel, scrollRow, disk, io,
                                       Moved(short, Len(disk.data)), m.allocOk),
                        io, Moved(short, Len(disk.data)), m)
    /\ pre' = Snapshot
    /\ UNCHANGED <<disk, wrap, ui, clip, now>>

\* Passes between the calls: a letter, Enter, backspace, select all, a move
\* that extends the selection, the wheel.
EditInputs ==
    {[Idle EXCEPT !.chars = <<97>>],
     [Idle EXCEPT !.keyEnter = TRUE],
     [Idle EXCEPT !.bsPressed = TRUE, !.bsDown = TRUE],
     [Idle EXCEPT !.ctrl = TRUE, !.keyA = TRUE],
     [Idle EXCEPT !.shift = TRUE, !.keyLeft = TRUE],
     [Idle EXCEPT !.wheel = 0 - 1]}

FileEdit == \E in \in EditInputs : DoTick(in)

InitFile == StartInit /\ wrap = NoWrap

NextFile == FileReplaced \/ FileSave \/ FileLoad \/ FileEdit

SpecFile == InitFile /\ [][NextFile]_vars

(***************************************************************************)
(* SpecSel: a file is opened, the cursor and the selection are moved with  *)
(* the keys and the mouse, and one edit ends the behaviour.  last follows  *)
(* the run of vertical moves or of extending actions the last pass belongs *)
(* to; after the edit it names the edit, and pre is the state before it.   *)
(***************************************************************************)
\* Longest content SpecSel follows.
MaxEdit == 4

\* Files of up to MaxEdit bytes, and one with a zero byte in it.
SelFiles == {[exists |-> TRUE, data |-> d, whole |-> FALSE] :
                d \in StringsUpTo(BufBytes, MaxEdit) \cup {<<97, 0, 97>>}}

EditOps == {"type", "cut", "copy"}

\* The pass with the inputs in, before the edit.
Pass(in) ==
    /\ ~crashed
    /\ last.op \notin EditOps
    /\ \E e \in {Tick(Cur, in)} :
        /\ e.buf.len <= MaxEdit
        /\ buf' = e.buf
        /\ sel' = e.sel
        /\ scrollRow' = e.scrollRow
        /\ ui' = e.ui
        /\ clip' = e.clip
        /\ crashed' = e.crashed
    /\ UNCHANGED <<disk, wrap, now>>

Untracked == [NoOp EXCEPT !.op = "tick"]

MoveKey(f, k) ==
    [f EXCEPT !.keyLeft = (k = "left"), !.keyRight = (k = "right"),
              !.keyHome = (k = "home"), !.keyEnd = (k = "end"),
              !.keyUp = (k = "up"), !.keyDown = (k = "down")]

\* Length of the row the cursor of b is on.
CursorRowLen(b) == line_length_at_row(b, cursor_row_col(b).row)

\* last after key k, "up" or "down", is pressed without shift: a is the
\* column the run of presses of k started at, ret tells that the run has
\* come to a row shorter than a.
VerticalRun(k) ==
    [NoOp EXCEPT !.op = k,
                 !.a = IF last.op = k THEN last.a ELSE cursor_row_col(buf).col,
                 !.ret = \/ last.op = k /\ last.ret
                         \/ CursorRowLen(buf') <
                                (IF last.op = k THEN last.a ELSE cursor_row_col(buf).col)]

\* last after an action that extends the selection: a is the cursor the run
\* of extending actions started at, from an inactive selection.
ExtendRun ==
    IF ~sel.active THEN [NoOp EXCEPT !.op = "extend", !.a = buf.cursor]
    ELSE IF last.op = "extend" THEN last
    ELSE Untracked

SelOpen ==
    /\ \E file \in SelFiles :
        Pass([Ctrl EXCEPT !.keyO = TRUE, !.openPath = TRUE, !.file = file])
    /\ last' = Untracked
    /\ pre' = NoSnapshot

\* Left, Right, Home, End, select-all, a click and the release of the button.
SelPlain ==
    /\ \/ \E k \in {"left", "right", "home", "end"} : Pass(MoveKey(Frame(FALSE), k))
       \/ Pass([Ctrl EXCEPT !.keyA = TRUE])
       \/ \E dy \in MouseDy, dx \in MouseDx :
            Pass([Frame(FALSE) EXCEPT !.mousePressed = TRUE, !.mouseDown = TRUE,
                                      !.mouseInText = TRUE, !.dy = dy, !.dx = dx])
       \/ Pass([Frame(FALSE) EXCEPT !.mouseReleased = TRUE])
    /\ last' = Untracked
    /\ pre' = NoSnapshot

SelVertical ==
    /\ \E k \in {"up", "down"} :
        /\ Pass(MoveKey(Frame(FALSE), k))
        /\ last' = VerticalRun(k)
    /\ pre' = NoSnapshot

\* A move with shift held, a click with shift held, a step of a drag.
SelExtend ==
    /\ \/ \E k \in {"left", "right", "home", "end", "up", "down"} :
            Pass(MoveKey(Frame(TRUE), k))
       \/ \E dy \in MouseDy, dx \in MouseDx :
            Pass([Frame(TRUE) EXCEPT !.mousePressed = TRUE, !.mouseDown = TRUE,
                                     !.mouseInText = TRUE, !.dy = dy, !.dx = dx])
       \/ /\ ui.dragging
          /\ \E dy \in MouseDy, dx \in MouseDx :
                Pass([Frame(FALSE) EXCEPT !.mouseDown = TRUE, !.mouseInText = TRUE,
                                          !.dy = dy, !.dx = dx])
    /\ last' = ExtendRun
    /\ pre' = NoSnapshot

\* One printable character is typed, whatever the allocator would answer.
SelType ==
    /\ \E ch \in {SP, 120, 126}, m \in Allocs :
        /\ Pass([Frame(FALSE) EXCEPT !.chars = <<ch>>, !.allocOk = m.allocOk,
                                      !.ub = m.ub])
        /\ last' = [NoOp EXCEPT !.op = "type", !.s = <<ch>>, !.allocOk = m.allocOk]
    /\ pre' = Snapshot

\* Ctrl+X and Ctrl+C; tmpOk tells whether malloc gave the copy its block.
SelCut ==
    /\ \E tmpOk \in BOOLEAN :
        /\ Pass([Ctrl EXCEPT !.keyX = TRUE, !.tmpOk = tmpOk])
        /\ last' = [NoOp EXCEPT !.op = "cut", !.allocOk = tmpOk]
    /\ pre' = Snapshot

SelCopy ==
    /\ \E tmpOk \in BOOLEAN :
        /\ Pass([Ctrl EXCEPT !.keyC = TRUE, !.tmpOk = tmpOk])
        /\ last' = [NoOp EXCEPT !.op = "copy", !.allocOk = tmpOk]
    /\ pre' = Snapshot

InitSel == StartInit /\ wrap = NoWrap

NextSel ==
    \/ SelOpen
    \/ SelPlain
    \/ SelVertical
    \/ SelExtend
    \/ SelType
    \/ SelCut
    \/ SelCopy

SpecSel == InitSel /\ [][NextSel]_vars

(***************************************************************************)
(* SpecRepeat: a file is opened and the backspace key is pressed, held and *)
(* released while the clock runs.  In last, op is what the key did in the  *)
(* last pass ("press": down and up the pass before; "hold": down as the    *)
(* pass before; "up": not down), ret that it is down, a the time of the    *)
(* press, z the bsNext the pass started with, s the time of the latest     *)
(* delete since the press and got the time from that delete to the delete  *)
(* of the last pass.  pre is the state before the last pass.               *)
(***************************************************************************)
\* The clock stops here, in milliseconds.
MaxTime == 500

\* Time between two passes.
TickSteps == {15, 45, 320}

\* What the pass at time t polls when the key is down or not: raylib's
\* IsKeyPressed is true in the pass the key is first seen down.
RepeatInput(t, down) ==
    [Idle EXCEPT !.now = t, !.bsDown = down, !.bsPressed = down /\ ~last.ret]

\* Bytes the pass that gave b2 removed from b1.
Deleted(b1, b2) == b1.len - b2.len

RepeatLast(t, down) ==
    [NoOp EXCEPT
        !.op = IF down /\ ~last.ret THEN "press" ELSE IF down THEN "hold" ELSE "up",
        !.ret = down,
        !.a = IF down /\ ~last.ret THEN t ELSE last.a,
        !.z = ui.bsNext,
        !.s = IF ~down THEN <<>>
              ELSE IF Deleted(buf, buf') > 0 THEN <<t>>
              ELSE IF last.ret THEN last.s ELSE <<>>,
        !.got = IF down /\ last.ret /\ Deleted(buf, buf') > 0 /\ last.s # <<>>
                THEN t - last.s[1] ELSE 0]

RepeatOpen ==
    /\ last.op = "none"
    /\ ~crashed
    /\ \E e \in {Tick(Cur, [Ctrl EXCEPT !.keyO = TRUE, !.openPath = TRUE,
                                        !.file = [exists |-> TRUE, whole |-> FALSE,
                                                  data |-> <<97, NL, 97, 97>>]])} :
        /\ buf' = e.buf
        /\ sel' = e.sel
        /\ scrollRow' = e.scrollRow
        /\ ui' = e.ui
        /\ clip' = e.clip
        /\ crashed' = e.crashed
    /\ last' = [NoOp EXCEPT !.op = "open"]
    /\ pre' = Snapshot
    /\ UNCHANGED <<disk, wrap, now>>

\* A pass dt after the last one, the key down or up.
RepeatTick ==
    /\ last.op # "none"
    /\ ~crashed
    /\ \E dt \in TickSteps, down \in BOOLEAN :
        /\ now + dt <= MaxTime
        /\ now' = now + dt
        /\ \E e \in {Tick(Cur, RepeatInput(now + dt, down))} :
            /\ buf' = e.buf
            /\ sel' = e.sel
            /\ scrollRow' = e.scrollRow
            /\ ui' = e.ui
            /\ clip' = e.clip
            /\ crashed' = e.crashed
        /\ last' = RepeatLast(now + dt, down)
    /\ pre' = Snapshot
    /\ UNCHANGED <<disk, wrap>>

InitRepeat == StartInit /\ wrap = NoWrap

NextRepeat ==
    \/ RepeatOpen
    \/ RepeatTick

SpecRepeat == InitRepeat /\ [][NextRepeat]_vars

(***************************************************************************)
(* Claims checked under Spec.                                              *)
(***************************************************************************)
\* C1: at the end of every pass, whatever the events were (typing, Enter,
\* backspace, cut, paste, select-all, the moves with or without shift, click,
\* shift-click, drag, wheel, an open that succeeds or fails), the cursor, the
\* anchor and the caret lie in [0, len].
C1_OffsetsInRange ==
    /\ 0 <= buf.cursor /\ buf.cursor <= buf.len
    /\ 0 <= sel.anchor /\ sel.anchor <= buf.len
    /\ 0 <= sel.caret /\ sel.caret <= buf.len

\* A pass has left a selection that runs backwards over the whole of a
\* content of MaxDoc bytes, the anchor at len and the caret and cursor at 0.
C1_Witness ==
    /\ last.op = "tick"
    /\ buf.len = MaxDoc
    /\ sel.active /\ sel.anchor = buf.len /\ sel.caret = 0 /\ buf.cursor = 0
    /\ ui.dirty

\* The inputs of a pass in which one of the events of C15 happens in the
\* current state: a character or a tab is typed, Enter, backspace, a cut of
\* a selection, a paste of a text that is not empty, a file is loaded (whole,
\* short, or into a block that did not grow), a click and a move without
\* shift.
CollapsingEvents ==
    {[f EXCEPT !.chars = chars, !.allocOk = m.allocOk, !.ub = m.ub] :
        f \in Frames, chars \in {<<97>>, <<9>>}, m \in Allocs}
    \cup {[f EXCEPT !.keyEnter = TRUE, !.allocOk = m.allocOk, !.ub = m.ub] :
            f \in Frames, m \in Allocs}
    \cup {[f EXCEPT !.bsPressed = TRUE, !.bsDown = TRUE] : f \in Frames}
    \cup (IF sel_has(sel)
          THEN {[Ctrl EXCEPT !.keyX = TRUE, !.tmpOk = tmpOk] : tmpOk \in BOOLEAN}
          ELSE {})
    \cup (IF CStr(clip) # <<>>
          THEN {[Ctrl EXCEPT !.keyV = TRUE, !.allocOk = m.allocOk, !.ub = m.ub] :
                  m \in Allocs}
          ELSE {})
    \cup {[Ctrl EXCEPT !.keyO = TRUE, !.openPath = TRUE, !.file = file,
                       !.shortRead = short, !.allocOk = m.allocOk, !.ub = m.ub] :
            file \in Files, short \in {0 - 1, 1}, m \in Allocs}
    \cup {[Frame(FALSE) EXCEPT !.mousePressed = TRUE, !.mouseDown = TRUE,
                               !.mouseInText = TRUE, !.dy = dy, !.dx = dx] :
            dy \in MouseDy, dx \in MouseDx}
    \cup {MoveKey(Frame(FALSE), k) :
            k \in {"left", "right", "home", "end", "up", "down"}}

\* C15: at the end of the pass of every edit (typed character, tab, Enter,
\* backspace, cut, paste of a text that is not empty), of every successful
\* load, of every click without shift and of every Left, Right, Up, Down,
\* Home or End without shift, anchor = caret = cursor, so that has-selection
\* is false.  A pass in which a write past the block ended the process has
\* no state after it.
C15_EditsCollapseSelection ==
    \A in \in CollapsingEvents :
        \A e \in {Tick(Cur, in)} :
            e.crashed \/ /\ e.sel.anchor = e.buf.cursor
                         /\ e.sel.caret = e.buf.cursor
                         /\ ~sel_has(e.sel)

\* A selection that is not empty, behind the cursor, and a clipboard text:
\* the paste replaces the selection and leaves anchor = caret = cursor.
C15_Witness ==
    /\ sel_has(sel) /\ sel.anchor > sel.caret
    /\ CStr(clip) # <<>>
    /\ \E e \in {Tick(Cur, [Ctrl EXCEPT !.keyV = TRUE])} :
        /\ e.buf.data # buf.data
        /\ e.sel.anchor = e.buf.cursor /\ e.sel.caret = e.buf.cursor
        /\ ~e.sel.active

\* C23: at the end of every pass the caret of the selection is the cursor
\* of the buffer, whatever edits, moves, clicks, drags, select-all and loads
\* came before.
C23_CaretIsCursor == sel.caret = buf.cursor

\* A drag has taken the cursor and the caret to the left of the anchor.
C23_Witness ==
    /\ last.op = "tick"
    /\ ui.dragging
    /\ sel.active /\ sel.caret < sel.anchor
    /\ sel.caret = buf.cursor

\* The inputs of the passes C24 speaks of: those of CollapsingEvents, the
\* wheel turned either way, and nothing at all.
ScrollEvents ==
    CollapsingEvents
    \cup {[f EXCEPT !.wheel = wheel] : f \in Frames, wheel \in {0 - 1, 0, 1}}

\* The row of the cursor of e is inside the window of rows rows.
CursorRowVisible(e, rows) ==
    /\ e.scrollRow <= cursor_row_col(e.buf).row
    /\ cursor_row_col(e.buf).row < e.scrollRow + rows

\* C24: at the end of the input handling of every pass the row of the
\* cursor is inside the scrolled window, scrollRow <= cursorRow < scrollRow
\* + visibleRows, also when the pass adds rows (Enter, a paste with
\* newlines, a load of a longer file) or turns the wheel.
C24_CursorRowInWindow ==
    \A in \in ScrollEvents :
        \A e \in {TickInput(Cur, in, MaxScroll(Cur, in))} :
            e.crashed \/ CursorRowVisible(e, in.visibleRows)

\* The same for the passes that leave the content with no more rows than
\* it had.
C24_CursorRowInWindowNoNewRows ==
    \A in \in ScrollEvents :
        \A e \in {TickInput(Cur, in, MaxScroll(Cur, in))} :
            \/ e.crashed
            \/ total_rows(e.buf) > total_rows(buf)
            \/ CursorRowVisible(e, in.visibleRows)

\* The inputs of the passes that edit and neither open nor save: those of
\* CollapsingEvents but the loads.
EditEvents == {in \in CollapsingEvents : ~in.keyO}

\* A character outside 32..126 that is not a tab is typed.
OtherCharEvents == {[f EXCEPT !.chars = <<200>>] : f \in Frames}

\* The input handling of the pass with the inputs in leaves dirty set if it
\* changed the content.
DirtyIfChanged(in) ==
    \A e \in {TickInput(Cur, in, MaxScroll(Cur, in))} :
        \/ e.crashed
        \/ e.buf.data = buf.data
        \/ e.ui.dirty

\* C25: when the input handling of a pass changes the content and no open
\* or save succeeds after the change in the same pass, dirty is true at the
\* end of the pass, also when a character outside 32..126 that is not a tab
\* is typed while the selection is not empty.
C25_ChangeSetsDirty == \A in \in EditEvents \cup OtherCharEvents : DirtyIfChanged(in)

\* The same without the characters that are not inserted.
C25_EditSetsDirty == \A in \in EditEvents : DirtyIfChanged(in)

(***************************************************************************)
(* Claims checked under SpecFile.                                          *)
(***************************************************************************)
\* The load recorded in last did not read the whole file: a call failed,
\* fread returned fewer bytes than the size, or the buffer could not grow.
LoadIncomplete ==
    /\ last.op = "load"
    /\ \/ last.io # "ok"
       \/ ~disk.exists
       \/ last.got < Len(disk.data)
       \/ Len(disk.data) + 1 > pre.buf.cap /\ ~last.allocOk

\* C5: when load_from_path does not read the whole source (open or seek
\* failure, a short read, or failure to grow the buffer), it returns false
\* and content, length, cursor, selection and scrollRow are as before the
\* call.
C5_IncompleteLoadFails ==
    LoadIncomplete =>
        /\ ~last.ret
        /\ buf = pre.buf
        /\ sel = pre.sel
        /\ scrollRow = pre.scrollRow

\* C6: a save_to_path that returns true followed by a load_from_path of the
\* same file that returns true gives a buffer with the same bytes and
\* length, cursor = len and the selection collapsed at len; save_to_path
\* leaves buffer, cursor and selection as they were and returns true only
\* when all len bytes were written.
C6_SaveLoadRoundTrip ==
    /\ last.op = "save" =>
          /\ buf = pre.buf
          /\ sel = pre.sel
          /\ last.ret => disk.exists /\ disk.data = buf.data /\ last.got = buf.len
    /\ last.op = "load" /\ last.ret /\ disk.whole =>
          /\ buf.data = disk.data
          /\ buf.len = Len(disk.data)
          /\ buf.cursor = buf.len
          /\ sel = sel_set_single(buf.len)

\* C14: in every reachable state 0 <= length <= capacity, also after an
\* insert or a load during which the block could not grow.
C14_LenWithinCap == 0 <= buf.len /\ buf.len <= buf.cap

(***************************************************************************)
(* Claims checked under SpecBuf.                                           *)
(***************************************************************************)
\* C2: buf_insert_bytes(s) at the cursor c followed by
\* buf_delete_range(c, c + |s|) restores the content, the length and the
\* cursor the buffer had before, for every content, every cursor and every
\* non-empty s (the allocation succeeding).
C2_InsertThenDeleteRestores ==
    last.op = "insert_delete" =>
        /\ buf.data = pre.buf.data
        /\ buf.len = pre.buf.len
        /\ buf.cursor = pre.buf.cursor

\* Two bytes inserted in the middle of a full block, so that the insert
\* grew the block before the delete took the bytes out again.
C2_Witness ==
    /\ last.op = "insert_delete"
    /\ Len(last.s) = 2
    /\ pre.buf.cursor = 1
    /\ pre.buf.len = 3
    /\ pre.buf.data[1] # pre.buf.data[2]
    /\ buf.cap > pre.buf.cap

\* C3: buf_delete_range(a, z) clamps a and z into [0, len]; with z <= a it
\* changes nothing; otherwise the content becomes old[0..a) followed by
\* old[z..len), the length drops by z - a, and the cursor moves back by
\* z - a when it was beyond z, to a when it was beyond a but not beyond z,
\* and stays otherwise.
C3_DeleteRange ==
    last.op = "delete" =>
        LET o == pre.buf
            a == IF last.a < 0 THEN 0 ELSE IF last.a > o.len THEN o.len ELSE last.a
            z == IF last.z < 0 THEN 0 ELSE IF last.z > o.len THEN o.len ELSE last.z
        IN  IF z <= a
            THEN buf = o
            ELSE /\ buf.data = SubSeq(o.data, 1, a) \o SubSeq(o.data, z + 1, o.len)
                 /\ buf.len = o.len - (z - a)
                 /\ Len(buf.data) = buf.len
                 /\ buf.cap = o.cap
                 /\ buf.cursor = IF o.cursor > z THEN o.cursor - (z - a)
                                 ELSE IF o.cursor > a THEN a
                                 ELSE o.cursor

\* A delete with a below 0 and the cursor beyond z: two bytes go and the
\* cursor moves back by two.
C3_Witness ==
    /\ last.op = "delete"
    /\ last.a < 0
    /\ last.z = 2
    /\ pre.buf.len = 4
    /\ pre.buf.cursor = 3
    /\ buf.len = 2
    /\ buf.cursor = 1

\* C4: when the growth allocation fails during buf_insert_bytes (the realloc
\* returns NULL while len + n + 1 exceeds cap) the insert is a no-op:
\* content, length, capacity and cursor are as before the call.
C4_FailedGrowthIsNoOp ==
    (/\ last.op = "insert"
     /\ ~last.allocOk
     /\ pre.buf.len + Len(last.s) + 1 > pre.buf.cap)
    => buf = pre.buf

\* C10: for every content and every offset o in [0, len], the row and
\* column cursor_row_col computes for o, given to index_at_row_col, give o
\* back (offsets at an end of row and just after a newline included).
C10_RowColRoundTrip ==
    \A o \in 0..buf.len :
        LET rc == cursor_row_col([buf EXCEPT !.cursor = o]) IN
        index_at_row_col(buf, rc.row, rc.col) = o

\* The cursor just after the second newline of a buffer, at the start of
\* row 2, with a byte following.
C10_Witness ==
    /\ buf.len = 4
    /\ buf.cursor = 3
    /\ buf.data[1] = NL
    /\ buf.data[3] = NL
    /\ cursor_row_col(buf) = [row |-> 2, col |-> 0]
    /\ index_at_row_col(buf, 2, 0) = 3

\* C20: buf_backspace with the cursor at 0 changes nothing (content, length
\* and cursor; an empty buffer stays empty); otherwise it removes the byte
\* at offset cursor - 1, length and cursor go down by 1 and the other bytes
\* keep their order.
C20_Backspace ==
    last.op = "backspace" =>
        IF pre.buf.cursor = 0 THEN buf = pre.buf
        ELSE /\ buf.data = SubSeq(pre.buf.data, 1, pre.buf.cursor - 1)
                            \o SubSeq(pre.buf.data, pre.buf.cursor + 1, pre.buf.len)
             /\ buf.len = pre.buf.len - 1
             /\ buf.cursor = pre.buf.cursor - 1

\* A byte between two others is removed.
C20_Witness ==
    /\ last.op = "backspace"
    /\ pre.buf.cursor > 1 /\ pre.buf.cursor < pre.buf.len
    /\ pre.buf.data[pre.buf.cursor] # pre.buf.data[pre.buf.cursor - 1]
    /\ buf.len = pre.buf.len - 1

\* Number of newline bytes in the content of b.
Newlines(b) == Cardinality({i \in 1..b.len : b.data[i] = NL})

\* C21: in every reachable state total_rows is 1 plus the number of newline
\* bytes of the content: 1 for an empty buffer, one more after one newline
\* byte went in at any cursor, and 1 plus the row cursor_row_col finds for
\* the offset length.  A buffer whose block buf_init could not get takes no
\* byte, so there the insert adds nothing.
C21_RowsCountNewlines ==
    /\ total_rows(buf) = 1 + Newlines(buf)
    /\ buf.len = 0 => total_rows(buf) = 1
    /\ (last.op = "insert" /\ last.s = <<NL>> /\ pre.buf.ok /\ ~crashed) =>
            total_rows(buf) = total_rows(pre.buf) + 1
    /\ total_rows(buf) = 1 + cursor_row_col([buf EXCEPT !.cursor = buf.len]).row

\* One newline went in between two bytes of a content that had a newline.
C21_Witness ==
    /\ last.op = "insert" /\ last.s = <<NL>>
    /\ pre.buf.cursor > 0 /\ pre.buf.cursor < pre.buf.len
    /\ total_rows(pre.buf) = 2
    /\ total_rows(buf) = 3

(***************************************************************************)
(* Claims checked under SpecIndex.                                         *)
(***************************************************************************)
\* Row of the content in which offset i lies.
RowOf(b, i) == cursor_row_col([b EXCEPT !.cursor = i]).row

\* C18: for every content and all integers row and col, negative and past
\* the last row or the end of the row included, index_at_row_col(row, col)
\* returns an offset in [0, length] that lies in row
\* clamp(row, 0, totalRows - 1), between the start of that row and its end
\* of line; for a row up to the last one the column of the offset is col
\* clamped to the length of the row.
C18_IndexStaysInRow ==
    last.op = "index" =>
        /\ 0 <= last.got /\ last.got <= buf.len
        /\ RowOf(buf, last.got) = clampi(last.a, 0, total_rows(buf) - 1)
        /\ last.got - line_start_index(buf, RowOf(buf, last.got))
              <= line_length_at_row(buf, RowOf(buf, last.got))
        /\ last.a <= total_rows(buf) - 1 =>
              last.got - line_start_index(buf, RowOf(buf, last.got))
                  = clampi(last.z, 0, line_length_at_row(buf, RowOf(buf, last.got)))

\* A column past the end of a row that is not the last one: the offset is
\* that row's newline, not a byte of the next row.
C18_Witness ==
    /\ last.op = "index"
    /\ last.a >= 0 /\ last.a < total_rows(buf) - 1
    /\ last.z > line_length_at_row(buf, last.a)
    /\ line_length_at_row(buf, last.a) > 0
    /\ buf.data[last.got + 1] = NL

\* C19: for every pointer position, also above the top of the text viewport
\* while scrollRow > 0, index_from_mouse returns index_at_row_col of the row
\* clamp(scrollRow + floor((pointerY - viewportTop) / lineHeight), 0,
\* totalRows - 1) and the rounded column, not below 0.  \div is the floor
\* of the quotient.
C19_HitTestRow ==
    last.op = "hit" =>
        last.got = index_at_row_col(buf,
                       clampi(last.s[1] + (last.s[2] \div lineH), 0, total_rows(buf) - 1),
                       maxi((2 * last.s[3] + charW) \div (2 * charW), 0))

\* The same for the pointer on or below the top edge of the viewport.
C19_HitTestRowInside ==
    (last.op = "hit" /\ last.s[2] >= 0) => C19_HitTestRow

(***************************************************************************)
(* Claims checked under SpecGrow.                                          *)
(***************************************************************************)
\* C26: for every needed with capacity < needed <= 2^31 - 1 the doubling
\* loop of buf_ensure ends without arithmetic overflow; when the realloc
\* succeeds the capacity is the old one times the smallest power of two
\* that makes it at least needed; the capacity never goes down.
C26_GrowthDoubles ==
    last.op = "ensure" =>
        /\ last.ub = "none"
        /\ ~crashed
        /\ buf.cap >= pre.buf.cap
        /\ last.allocOk =>
            \E m \in {2^k : k \in 1..30} :
                /\ m <= IntMax \div pre.buf.cap
                /\ buf.cap = pre.buf.cap * m
                /\ buf.cap >= last.a
                /\ pre.buf.cap * (m \div 2) < last.a
        /\ ~last.allocOk => buf.cap = pre.buf.cap

\* The same for the sizes up to 2^30.
C26_GrowthDoublesToHalf ==
    (last.op = "ensure" /\ last.a <= 2^30) => C26_GrowthDoubles

(***************************************************************************)
(* Claims checked under SpecWrap.                                          *)
(***************************************************************************)
\* The bytes the last call of wrap_fit_count was given.
WrapInput == SubSeq(wrap.line, (IF wrap.pc = "called" THEN wrap.off
                                ELSE wrap.segs[Len(wrap.segs)][1]) + 1,
                    Len(wrap.line))

WrapCalled == wrap.pc = "called" \/ (wrap.pc \in {"loop", "done"} /\ wrap.segs # <<>>)

\* C7: for every input of n >= 1 bytes, every maximum width (smaller than
\* one glyph, zero and negative included) and every glyph widths,
\* wrap_fit_count returns k with 1 <= k <= n; for n <= 0 it returns 0.
C7_FitCountInRange ==
    WrapCalled =>
        IF wrap.n >= 1 THEN 1 <= wrap.ret /\ wrap.ret <= wrap.n
        ELSE wrap.ret = 0

\* A call with three bytes where the first glyph alone is wider than the
\* maximum width: the count is 1.
C7_Witness ==
    /\ wrap.pc = "called"
    /\ wrap.n = 3
    /\ wrap.maxWidth <= 0
    /\ wrap.glyph[WrapInput[1]] > wrap.maxWidth
    /\ WrapInput[1] # SP
    /\ wrap.ret = 1

\* C8: applying wrap_fit_count again and again to a line, advancing the
\* offset by the returned count each time, ends after at most as many calls
\* as the line has bytes with the offset equal to the line length; the
\* segments are contiguous and do not overlap.  Each returned count is
\* used as it is (the clamps of the loop never change it); the loop of
\* the draw code stops earlier only when the visible rows are used up.
C8_WrapPartitionsLine ==
    wrap.pc \in {"loop", "done"} =>
        /\ wrap.off <= Len(wrap.line)
        /\ Len(wrap.segs) <= wrap.off
        /\ Len(wrap.segs) = wrap.drawnVisual
        /\ \A k \in 1..Len(wrap.segs) :
            /\ wrap.segs[k][2] = wrap.segs[k][3]
            /\ wrap.segs[k][2] >= 1
            /\ wrap.segs[k][1] = IF k = 1 THEN 0
                                 ELSE wrap.segs[k - 1][1] + wrap.segs[k - 1][2]
        /\ wrap.segs # <<>> =>
            wrap.off = wrap.segs[Len(wrap.segs)][1] + wrap.segs[Len(wrap.segs)][2]
        /\ (wrap.pc = "done" /\ wrap.drawnVisual < wrap.visibleRows) =>
            wrap.off = Len(wrap.line)

\* A line without spaces, longer than the measurement buffer and wider than
\* the viewport, consumed to its end in several forced breaks.
C8_Witness ==
    /\ wrap.pc = "done"
    /\ Len(wrap.line) > TmpLimit
    /\ \A i \in 1..Len(wrap.line) : wrap.line[i] # SP
    /\ MeasureTextEx(wrap.glyph, wrap.line) > wrap.maxWidth
    /\ wrap.maxWidth > 0
    /\ Len(wrap.segs) >= 2
    /\ wrap.drawnVisual < wrap.visibleRows
    /\ wrap.off = Len(wrap.line)

\* C9 as claimed: every segment wrap_fit_count returns measures no more
\* than the maximum width.
C9_SegmentFitsAlways ==
    (WrapCalled /\ wrap.ret >= 1) =>
        MeasureTextEx(wrap.glyph, SubSeq(WrapInput, 1, wrap.ret)) <= wrap.maxWidth

\* C9 as amended: a segment measures no more than the maximum width unless
\* it is a single byte, or its last byte is a space and the segment without
\* that space measures no more than the maximum width.
C9_SegmentFitsUnlessForced ==
    (WrapCalled /\ wrap.ret >= 1) =>
        \/ MeasureTextEx(wrap.glyph, SubSeq(WrapInput, 1, wrap.ret)) <= wrap.maxWidth
        \/ wrap.ret = 1
        \/ /\ WrapInput[wrap.ret] = SP
           /\ MeasureTextEx(wrap.glyph, SubSeq(WrapInput, 1, wrap.ret - 1)) <= wrap.maxWidth

\* A call that broke the input: the segment of two bytes or more fits and
\* the whole input does not.
C9_Witness ==
    /\ wrap.pc = "called"
    /\ wrap.ret >= 2
    /\ wrap.ret < wrap.n
    /\ WrapInput[wrap.ret] # SP
    /\ MeasureTextEx(wrap.glyph, SubSeq(WrapInput, 1, wrap.ret)) <= wrap.maxWidth
    /\ MeasureTextEx(wrap.glyph, SubSeq(WrapInput, 1, wrap.ret + 1)) > wrap.maxWidth

\* Bytes of the last call that wrap_fit_count looks at, min(n, limit), and
\* the indexes i among them at which the prefix s[0..i] measures more than
\* the maximum width.
WrapTakeMax == IF wrap.n < TmpLimit THEN wrap.n ELSE TmpLimit

WrapOver ==
    {i \in 0..(WrapTakeMax - 1) :
        MeasureTextEx(wrap.glyph, SubSeq(WrapInput, 1, i + 1)) > wrap.maxWidth}

WrapFirstOver == CHOOSE i \in WrapOver : \A j \in WrapOver : i <= j

WrapSpaces == {j \in 0..WrapFirstOver : WrapInput[j + 1] = SP}

\* C22: when i is the first index at which the prefix s[0..i] measures more
\* than the maximum width, wrap_fit_count returns the index of the last
\* space in s[0..i] plus 1 if there is a space there, the one at i
\* included, and otherwise i when i > 0 and 1 when i = 0; when no prefix of
\* the first min(n, limit) bytes measures more, it returns min(n, limit).
C22_BreakPosition ==
    (WrapCalled /\ wrap.n >= 1) =>
        IF WrapOver = {} THEN wrap.ret = WrapTakeMax
        ELSE IF WrapSpaces # {}
        THEN wrap.ret = 1 + CHOOSE j \in WrapSpaces : \A k \in WrapSpaces : k <= j
        ELSE wrap.ret = IF WrapFirstOver > 0 THEN WrapFirstOver ELSE 1

\* The prefix first measures too much at a space that is not the first
\* byte, no space before it: the count takes the space in.
C22_Witness ==
    /\ wrap.pc = "called"
    /\ wrap.n >= 1
    /\ WrapOver # {}
    /\ WrapFirstOver > 0
    /\ WrapSpaces = {WrapFirstOver}
    /\ wrap.ret = WrapFirstOver + 1

(***************************************************************************)
(* Claims checked under SpecSel.                                           *)
(***************************************************************************)

\* C11: when one printable character ch is typed while the selection
\* [a, z) = [min(anchor, caret), max(anchor, caret)) is not empty, the new
\* content is old[0..a) + ch + old[z..length), the cursor is a + 1 and the
\* selection is collapsed at a + 1.
C11_TypeReplacesSelection ==
    (last.op = "type" /\ sel_has(pre.sel)) =>
        /\ buf.data = SubSeq(pre.buf.data, 1, sel_a(pre.sel)) \o last.s
                        \o SubSeq(pre.buf.data, sel_z(pre.sel) + 1, pre.buf.len)
        /\ buf.len = pre.buf.len - (sel_z(pre.sel) - sel_a(pre.sel)) + 1
        /\ buf.cursor = sel_a(pre.sel) + 1
        /\ sel.anchor = sel_a(pre.sel) + 1
        /\ sel.caret = sel_a(pre.sel) + 1
        /\ ~sel_has(sel)

\* Select-all on a content of MaxEdit bytes, then 'x': the content is "x"
\* and the cursor is 1.
C11_Witness ==
    /\ last.op = "type" /\ last.s = <<120>>
    /\ pre.buf.len = MaxEdit
    /\ sel_has(pre.sel) /\ sel_a(pre.sel) = 0 /\ sel_z(pre.sel) = MaxEdit
    /\ buf.data = <<120>> /\ buf.len = 1 /\ buf.cursor = 1

\* C12: a run of consecutive Up presses, or of Down presses, that started at
\* column c, has passed through a row shorter than c and has come to a row
\* of length at least c leaves the cursor at column c of that row.
C12_VerticalKeepsColumn ==
    (last.op \in {"up", "down"} /\ last.ret /\ CursorRowLen(buf) >= last.a) =>
        cursor_row_col(buf).col = last.a

\* C16: after every action of a run of extending actions (moves with shift
\* held, clicks with shift held, steps of a drag) that started from an
\* inactive selection with the cursor at c0, the selection is active, the
\* anchor is c0 and the caret is the cursor.
C16_ExtendKeepsAnchor ==
    last.op = "extend" =>
        /\ sel.active
        /\ sel.anchor = last.a
        /\ sel.caret = buf.cursor

\* A run that started inside the content has brought the cursor to the
\* left of its start.
C16_Witness ==
    /\ last.op = "extend"
    /\ last.a < buf.len
    /\ buf.cursor < last.a
    /\ sel.anchor = last.a /\ sel.caret = buf.cursor

\* C17: a cut with a selection that is not empty puts the bytes of
\* [min(anchor, caret), max(anchor, caret)) on the clipboard, removes
\* exactly those bytes and leaves the cursor and the collapsed selection at
\* min(anchor, caret); a copy puts the same bytes on the clipboard and
\* leaves buffer, cursor and selection as they were.
C17_CutCopyRange ==
    /\ (last.op = "cut" /\ sel_has(pre.sel)) =>
        /\ clip = SubSeq(pre.buf.data, sel_a(pre.sel) + 1, sel_z(pre.sel))
        /\ buf.data = SubSeq(pre.buf.data, 1, sel_a(pre.sel))
                        \o SubSeq(pre.buf.data, sel_z(pre.sel) + 1, pre.buf.len)
        /\ buf.cursor = sel_a(pre.sel)
        /\ sel.anchor = sel_a(pre.sel) /\ sel.caret = sel_a(pre.sel)
        /\ ~sel_has(sel)
    /\ (last.op = "copy" /\ sel_has(pre.sel)) =>
        /\ clip = SubSeq(pre.buf.data, sel_a(pre.sel) + 1, sel_z(pre.sel))
        /\ buf = pre.buf
        /\ sel = pre.sel

\* The same with the two defects taken out: the copy got its block and the
\* selected bytes hold no zero byte.
C17_CutCopyRangeOfText ==
    (/\ last.op \in {"cut", "copy"}
     /\ last.allocOk
     /\ \A i \in (sel_a(pre.sel) + 1)..sel_z(pre.sel) : pre.buf.data[i] # 0)
        => C17_CutCopyRange

(***************************************************************************)
(* Claims checked under SpecRepeat.                                        *)
(***************************************************************************)
\* C13: the pass in which the key goes down, at time t0, performs exactly
\* one delete; while the key stays down no pass before t0 + initialDelay
\* deletes; a later pass that deletes does so once, at a time now >= the
\* bsNext it started with, and leaves bsNext = now + repeatRate, so two
\* deletes of one hold are at least repeatRate apart; a pass in which the
\* key is up deletes nothing and ends the hold.
C13_BackspaceRepeat ==
    /\ last.op = "press" =>
        /\ buf = buf_backspace(pre.buf)
        /\ ui.bsHeldPrev
        /\ ui.bsNext = now + BS_INITIAL_DELAY
    /\ (last.op = "hold" /\ now < last.a + BS_INITIAL_DELAY) => buf = pre.buf
    /\ (last.op = "hold" /\ buf # pre.buf) =>
        /\ buf = buf_backspace(pre.buf)
        /\ now >= last.z
        /\ ui.bsNext = now + BS_REPEAT_RATE
        /\ last.got >= BS_REPEAT_RATE
    /\ last.op = "up" => (buf = pre.buf /\ ~ui.bsHeldPrev)

\* The key has been down since a press, and a pass later than the first
\* repeat deletes one more byte, exactly repeatRate after that repeat.
C13_Witness ==
    /\ last.op = "hold"
    /\ Deleted(pre.buf, buf) = 1
    /\ now > last.a + BS_INITIAL_DELAY
    /\ last.got = BS_REPEAT_RATE

====
